---- MODULE Spec2Model ----
(***************************************************************************)
(* Model of the Flat Image Tree validator (fit_validate): the schema       *)
(* elements of elements.py, the two schema variants of schema.py and the   *)
(* validator engine of fdt_validate.py.                                    *)
(*                                                                         *)
(* Schema elements are Python objects; they live in a heap (a sequence of  *)
(* records), an element's identity is its index, and 0 stands for None.    *)
(* A devicetree is a sequence of node records in document order; a node    *)
(* is identified by its path, the sequence of node names from the root     *)
(* (the root's path is the empty sequence and its name is "/").            *)
(***************************************************************************)
EXTENDS Naturals, Sequences, FiniteSets

VARIABLES
    pc,              \* where the caller is: init, built, idle, run, done, raised, crashed
    args_upl,        \* the variant get_schema was asked for (args.upl)
    heap,            \* the schema elements constructed so far
    root,            \* the element get_schema returned (0 before)
    adds,            \* number of add_element calls the caller made after get_schema
    v_schema,        \* FdtValidator._schema
    raise_on_error,  \* FdtValidator._raise_on_error
    errors,          \* FdtValidator._errors
    fdt,             \* FdtValidator._fdt: the tree of the current run
    stack,           \* the _validate_tree frames of the current run, innermost last
    runs,            \* number of start calls made on the engine
    first,           \* history: how the first start call on the engine ended
    validated,       \* history: the _validate_schema(node, schema) calls of this run
    logged,          \* history: the findings passed to fail in this run
    skipped,         \* history: the nodes get_schema resolved to None in this run
    calls,           \* history: the get_element calls of the last step
    ph,              \* the inputs and result of a stand-alone check_phandle_target call
    drv,             \* run_fit_validate: its files, its loop and how it ended
    ep               \* the inputs and result of a stand-alone element_present call

vars == <<pc, args_upl, heap, root, adds, v_schema, raise_on_error, errors, fdt,
          stack, runs, first, validated, logged, skipped, calls, ph, drv, ep>>

(***************************************************************************)
(* Bounds                                                                  *)
(***************************************************************************)
\* number of start calls on one engine
MaxRuns == 2
\* number of add_element calls a caller makes after get_schema
MaxAdd == 2
\* length of a phandle template / depth of a phandle target path
MaxSegs == 3
\* number of files on the command line of run_fit_validate
MaxFiles == 2
\* number of entries of a conditional_props dict
MaxCond == 2

(***************************************************************************)
(* Sequence helpers                                                        *)
(***************************************************************************)
Range(s) == {s[i] : i \in 1..Len(s)}

Front(s) == SubSeq(s, 1, Len(s) - 1)

Last(s) == s[Len(s)]

(***************************************************************************)
(* elements.py: the schema element classes                                 *)
(***************************************************************************)
PropClasses == {"PropDesc", "PropString", "PropInt", "PropTimestamp",
                "PropAddressCells", "PropBool", "PropStringList",
                "PropPhandleTarget", "PropPhandle", "PropCustom", "PropAny",
                "PropOneOf"}

NodeAnyClasses == {"NodeAny", "NodeImage", "NodeConfig"}

NodeClasses == {"NodeDesc", "NodeModel", "NodeSubmodel"} \cup NodeAnyClasses

\* isinstance(e, PropDesc), isinstance(e, NodeDesc), ...
IsPropDesc(e) == e.cls \in PropClasses

IsNodeDesc(e) == e.cls \in NodeClasses

IsNodeAny(e) == e.cls \in NodeAnyClasses

IsPropAny(e) == e.cls = "PropAny"

IsPropInt(e) == e.cls \in {"PropInt", "PropTimestamp"}

\* SchemaElement.__init__: a new element has no parent.  conditional_props
\* is a sequence of [rel, value] entries (a dict in insertion order); rel is
\* the key split into its leading "../" tokens and the remaining name.
SchemaElement_init(cls, name, prop_type, required, conditional_props) ==
    [cls |-> cls, name |-> name, prop_type |-> prop_type,
     required |-> required, conditional_props |-> conditional_props,
     parent |-> 0, elements |-> <<>>, name_pattern |-> "", str_pattern |-> ""]

NoCond == <<>>

PropString(name, required, cond) ==
    SchemaElement_init("PropString", name, "string", required, cond)

PropInt(name, required, cond) ==
    SchemaElement_init("PropInt", name, "int", required, cond)

PropTimestamp(name, required) ==
    SchemaElement_init("PropTimestamp", name, "int", required, NoCond)

PropAddressCells(required) ==
    SchemaElement_init("PropAddressCells", "#address-cells", "address-cells",
                       required, NoCond)

PropBool(name) == SchemaElement_init("PropBool", name, "bool", FALSE, NoCond)

PropStringList(name) ==
    SchemaElement_init("PropStringList", name, "stringlist", FALSE, NoCond)

\* PropDesc has no __init__ of its own: its arguments are SchemaElement's
\* (name, prop_type, required=False, conditional_props=None).
PropDesc(name, prop_type, required, cond) ==
    SchemaElement_init("PropDesc", name, prop_type, required, cond)

PropPhandleTarget ==
    SchemaElement_init("PropPhandleTarget", "phandle", "phandle-target",
                       FALSE, NoCond)

PropAny == SchemaElement_init("PropAny", "ANY", "any", FALSE, NoCond)

\* Creating an object: it is appended to the heap; its identity is Len(heap)+1.
New(h, e) == Append(h, e)

RECURSIVE NewAll(_, _)
NewAll(h, es) == IF es = <<>> THEN h ELSE NewAll(New(h, Head(es)), Tail(es))

\* The identities NewAll(h, es) gives the elements of es.
Ids(h, es) == [i \in 1..Len(es) |-> Len(h) + i]

\* NodeDesc.__init__(name, required, elements): the new node element, and
\* every element of elements gets the node as its parent.
NodeDesc_init(h, cls, name, required, elements, name_pattern) ==
    LET self == Len(h) + 1
        node == [SchemaElement_init(cls, name, "node", required, NoCond)
                    EXCEPT !.elements = elements, !.name_pattern = name_pattern]
    IN  [i \in 1..self |->
            IF i = self THEN node
            ELSE IF i \in Range(elements) THEN [h[i] EXCEPT !.parent = self]
            ELSE h[i]]

\* NodeAny.add_element(elem): appended to the element list; the code sets
\* elem.parent to elem itself.
add_element(h, self, elem) ==
    [h EXCEPT ![self].elements = Append(@, elem), ![elem].parent = elem]

\* NodeDesc.get_nodes
get_nodes(h, self) == SelectSeq(h[self].elements, LAMBDA i : IsNodeDesc(h[i]))

(***************************************************************************)
(* schema.py: get_schema(upl)                                              *)
(***************************************************************************)
ImageElements ==
    << PropString("description", TRUE, NoCond),
       PropTimestamp("timestamp", FALSE),
       PropString("arch", TRUE, NoCond),
       PropString("type", TRUE, NoCond),
       PropString("compression", FALSE, NoCond),
       PropInt("data-offset", TRUE, <<[rel |-> <<"data">>, value |-> FALSE]>>),
       PropInt("data-size", TRUE, <<[rel |-> <<"data">>, value |-> FALSE]>>),
       \* PropDesc('data', True, conditional_props=...): True is the
       \* prop_type argument, so required keeps its default, False
       PropDesc("data", "True", FALSE,
                <<[rel |-> <<"data-offset">>, value |-> FALSE],
                  [rel |-> <<"data-size">>, value |-> FALSE]>>),
       PropString("os", TRUE, NoCond),
       PropInt("load", FALSE, NoCond),
       PropStringList("capabilities"),
       PropString("producer", FALSE, NoCond),
       PropInt("uncomp-size", FALSE, NoCond),
       PropInt("entry-start", FALSE, NoCond),
       PropInt("entry", FALSE, NoCond),
       PropInt("reloc-start", FALSE, NoCond) >>

ConfigElements ==
    << PropString("description", TRUE, NoCond),
       PropString("fdt", FALSE, NoCond),
       PropStringList("loadables"),
       PropStringList("compatible"),
       PropBool("require-fit") >>

RootProps ==
    << PropTimestamp("timestamp", TRUE),
       PropString("description", TRUE, NoCond),
       PropAddressCells(TRUE) >>

\* The heap after get_schema(upl) and the identity of the element it returns.
get_schema(upl) ==
    LET h1   == NewAll(<<>>, ImageElements)
        h2   == NodeDesc_init(h1, "NodeImage", "ANY", FALSE, Ids(<<>>, ImageElements),
                              IF upl THEN "image-\\d+" ELSE "[a-z-]+-\\d+")
        node_image == Len(h2)
        h3   == NewAll(h2, ConfigElements)
        h4   == NodeDesc_init(h3, "NodeConfig", "ANY", FALSE, Ids(h2, ConfigElements),
                              IF upl THEN "config-\\d+" ELSE "conf-\\d+")
        node_config == Len(h4)
        h5   == NewAll(h4, RootProps)
        h6   == NodeDesc_init(h5, "NodeDesc", "images", TRUE, <<node_image>>, "")
        images == Len(h6)
        h7   == New(h6, PropString("default", FALSE, NoCond))
        h8   == NodeDesc_init(h7, "NodeDesc", "configurations", TRUE,
                              <<Len(h7), node_config>>, "")
        configurations == Len(h8)
        h9   == NodeDesc_init(h8, "NodeDesc", "/", TRUE,
                              Ids(h4, RootProps) \o <<images, configurations>>, "")
        schema == Len(h9)
        \* Tweak the base schema as needed for UPL/vanilla variants
        hU1  == New(h9, PropString("project", TRUE, NoCond))
        hU2  == add_element(hU1, node_image, Len(hU1))
        hU3  == New(hU2, PropString("firmware", TRUE, NoCond))
        hU4  == add_element(hU3, node_config, Len(hU3))
        hF1  == New(h9, PropString("kernel", TRUE, NoCond))
        hF2  == add_element(hF1, node_config, Len(hF1))
        hF3  == New(hF2, PropString("ramdisk", FALSE, NoCond))
        hF4  == add_element(hF3, node_config, Len(hF3))
    IN  [heap |-> IF upl THEN hU4 ELSE hF4, schema |-> schema]

(***************************************************************************)
(* The parsed devicetree (dtoc's fdt.Node / fdt.Prop, read-only)           *)
(***************************************************************************)
\* A property: its name, its type tag (fdt.Type) and its decoded value.
Prop(name, type, value) == [name |-> name, type |-> type, value |-> value]

IntProp(name, n) == Prop(name, "INT", n)

StrProp(name) == Prop(name, "STRING", 0)

BoolProp(name) == Prop(name, "BOOL", 0)

TreeNode(path, props) == [path |-> path, props |-> props]

\* node.name: the root is called '/'
NodeName(path) == IF path = <<>> THEN "/" ELSE Last(path)

\* node.parent: <<p>> for a node p, <<>> for None (the root has no parent)
NodeParent(path) == IF path = <<>> THEN <<>> ELSE <<Front(path)>>

\* os.path.dirname(node.path) of a node below the root
Dirname(path) == Front(path)

NodeAt(t, path) == t[CHOOSE i \in 1..Len(t) : t[i].path = path]

\* node.props.keys(), in the order of the document
PropNames(t, path) ==
    LET ps == NodeAt(t, path).props IN [i \in 1..Len(ps) |-> ps[i].name]

\* node.subnodes, in the order of the document
Subnodes(t, path) ==
    SelectSeq(t, LAMBDA n : n.path # <<>> /\ Front(n.path) = path)

SubnodeNames(t, path) ==
    LET ns == Subnodes(t, path) IN [i \in 1..Len(ns) |-> Last(ns[i].path)]

IsPrefix(p, q) == Len(p) <= Len(q) /\ SubSeq(q, 1, Len(p)) = p

(***************************************************************************)
(* The documents the engine is run on: the skeleton of validate_test.py    *)
(* (HEADER) in its UPL and its FIT form, and each with one change.         *)
(***************************************************************************)
ImagePath == <<"images", "image-1">>

ConfigPath(upl) == <<"configurations", IF upl THEN "config-1" ELSE "conf-1">>

Header(upl) ==
    << TreeNode(<<>>, <<IntProp("timestamp", 123456), StrProp("description"),
                        IntProp("#address-cells", 1)>>),
       TreeNode(<<"images">>, <<>>),
       TreeNode(ImagePath,
                <<StrProp("description"), StrProp("arch"), StrProp("type"),
                  StrProp("data"), StrProp("os")>>
                \o (IF upl THEN <<StrProp("project")>> ELSE <<>>)),
       TreeNode(<<"configurations">>, <<>>),
       TreeNode(ConfigPath(upl),
                <<StrProp("description"),
                  StrProp(IF upl THEN "firmware" ELSE "kernel")>>) >>

SetProps(t, path, props) ==
    [i \in 1..Len(t) |-> IF t[i].path = path THEN TreeNode(path, props) ELSE t[i]]

DelProp(t, path, name) ==
    SetProps(t, path, SelectSeq(NodeAt(t, path).props, LAMBDA p : p.name # name))

AddProp(t, path, prop) == SetProps(t, path, Append(NodeAt(t, path).props, prop))

PutProp(t, path, prop) == AddProp(DelProp(t, path, prop.name), path, prop)

DelNode(t, path) == SelectSeq(t, LAMBDA n : ~IsPrefix(path, n.path))

Rename(t, path, name) ==
    [i \in 1..Len(t) |->
        IF IsPrefix(path, t[i].path)
        THEN TreeNode(Front(path) \o <<name>>
                        \o SubSeq(t[i].path, Len(path) + 1, Len(t[i].path)),
                      t[i].props)
        ELSE t[i]]

Edits == {"none", "missing", "extra", "extra-deep", "offset-size", "no-data",
          "data-and-offset", "all-data", "no-description", "cells-3",
          "phandle", "kernel-1", "node-description", "no-images", "hash",
          "timestamp-str", "linux-phandle", "reg", "unit-address", "cells",
          "config-extra", "phandle-both", "no-nodes", "kernel-hash"}

Edit(e, upl) ==
    LET t == Header(upl) IN
    CASE e = "none" -> t
      \* test_missing: the variant-specific fields removed
      [] e = "missing" ->
            DelProp(DelProp(DelProp(t, ImagePath, "project"),
                            ConfigPath(upl), "firmware"), ConfigPath(upl), "kernel")
      \* test_extra: HEADER + EXTRA
      [] e = "extra" ->
            AddProp(Append(t, TreeNode(<<"wibble">>, <<BoolProp("something")>>)),
                    <<"images">>, BoolProp("extra-prop"))
      [] e = "extra-deep" ->
            t \o << TreeNode(<<"wibble">>, <<BoolProp("something")>>),
                    TreeNode(<<"wibble", "inner">>, <<BoolProp("other")>>) >>
      [] e = "offset-size" ->
            AddProp(AddProp(DelProp(t, ImagePath, "data"),
                            ImagePath, IntProp("data-offset", 0)),
                    ImagePath, IntProp("data-size", 16))
      [] e = "no-data" -> DelProp(t, ImagePath, "data")
      [] e = "data-and-offset" -> AddProp(t, ImagePath, IntProp("data-offset", 0))
      [] e = "all-data" ->
            AddProp(AddProp(t, ImagePath, IntProp("data-offset", 0)),
                    ImagePath, IntProp("data-size", 16))
      [] e = "no-description" -> DelProp(t, <<>>, "description")
      [] e = "cells-3" -> PutProp(t, <<>>, IntProp("#address-cells", 3))
      [] e = "phandle" -> AddProp(t, ImagePath, IntProp("phandle", 1))
      [] e = "kernel-1" -> Rename(t, ImagePath, "kernel-1")
      [] e = "node-description" ->
            Append(t, TreeNode(<<"description">>, <<StrProp("arch")>>))
      [] e = "no-images" -> DelNode(t, <<"images">>)
      [] e = "hash" ->
            Append(t, TreeNode(ImagePath \o <<"hash-1">>, <<StrProp("algo")>>))
      [] e = "timestamp-str" -> PutProp(t, <<>>, StrProp("timestamp"))
      [] e = "linux-phandle" -> AddProp(t, ImagePath, IntProp("linux,phandle", 1))
      [] e = "reg" -> AddProp(t, ImagePath, IntProp("reg", 0))
      [] e = "unit-address" ->
            AddProp(AddProp(Rename(AddProp(t, ImagePath, IntProp("reg", 0)),
                                   ImagePath, "image@1"),
                            <<"images">>, IntProp("#address-cells", 1)),
                    <<"images">>, IntProp("#size-cells", 0))
      [] e = "cells" -> AddProp(t, <<"images">>, IntProp("#address-cells", 1))
      [] e = "config-extra" -> AddProp(t, ConfigPath(upl), StrProp("extra"))
      [] e = "no-nodes" -> DelNode(DelNode(t, <<"images">>), <<"configurations">>)
      [] e = "kernel-hash" ->
            Rename(Append(t, TreeNode(ImagePath \o <<"hash-1">>, <<StrProp("algo")>>)),
                   ImagePath, "kernel-1")
      [] e = "phandle-both" ->
            AddProp(AddProp(t, ImagePath, IntProp("phandle", 1)),
                    ConfigPath(upl), IntProp("phandle", 2))

Trees == {Edit(e, upl) : e \in Edits, upl \in BOOLEAN}

\* The documents run against a schema a caller has added elements to
ExtTrees == {Edit(e, upl) : e \in {"none", "config-extra", "phandle", "extra",
                                        "phandle-both"},
                           upl \in BOOLEAN}

(***************************************************************************)
(* fdt_validate.py: the validator engine                                   *)
(***************************************************************************)
\* A finding: the text FdtValidator.fail appends, '{location}: {msg}', kept
\* as its parts: the location, the kind of message, the name the message
\* quotes and the list it ends with.
Finding(loc, kind, name, list) ==
    [loc |-> loc, kind |-> kind, name |-> name, list |-> list]

\* What a piece of code did before it returned or failed with an exception
\* that is not the engine's own (AttributeError, TypeError): the calls of
\* fail it made, in order, and whether it ended with such an exception.
Did(fails, crash) == [fails |-> fails, crash |-> crash]

Nothing == Did(<<>>, FALSE)

Crash == Did(<<>>, TRUE)

\* Running pieces of code one after the other: the first exception ends it.
RECURSIVE Then(_)
Then(ds) ==
    IF ds = <<>> THEN Nothing
    ELSE IF Head(ds).crash THEN Head(ds)
    ELSE LET rest == Then(Tail(ds))
         IN  Did(Head(ds).fails \o rest.fails, rest.crash)

\* '@' in name, for the node names of the documents
HasAt(name) == name \in {"image@1"}

\* is_builtin_property with a fault: reg is accepted on any node
is_builtin_property_any_reg(t, node, prop_name) ==
    \/ prop_name = "reg"
    \/ /\ prop_name \in {"#address-cells", "#size-cells"}
       /\ \E n \in Range(SubnodeNames(t, node)) : HasAt(n)

\* _is_builtin_property(node, prop_name)
is_builtin_property(t, node, prop_name) ==
    \/ prop_name = "reg" /\ HasAt(NodeName(node))
    \/ /\ prop_name \in {"#address-cells", "#size-cells"}
       /\ \E n \in Range(SubnodeNames(t, node)) : HasAt(n)

\* The while loop of element_present: one schema parent and one tree parent
\* per leading '../'.  schema_target is an element or 0 (None), node_target
\* is <<path>> or <<>> (None); following .parent of None raises.
RECURSIVE StripDots(_, _, _, _)
StripDots(h, name, schema_target, node_target) ==
    IF name # <<>> /\ Head(name) = "../"
    THEN IF schema_target = 0 \/ node_target = <<>>
         THEN [error |-> TRUE, name |-> name, schema_target |-> 0,
               node_target |-> <<>>]
         ELSE StripDots(h, Tail(name), h[schema_target].parent,
                        NodeParent(node_target[1]))
    ELSE [error |-> FALSE, name |-> name, schema_target |-> schema_target,
          node_target |-> node_target]

\* CondEntry with a fault: the condition is never held against the element
CondEntry_unconditional(h, t, schema, parent_node, entry) ==
    LET w == StripDots(h, entry.rel, h[schema].parent, <<parent_node>>)
    IN  IF w.error \/ w.schema_target = 0 \/ ~IsNodeDesc(h[w.schema_target])
           \/ w.node_target = <<>>
        THEN "error" ELSE "ok"

\* CondEntry with a fault: a name the target schema does not declare counts
CondEntry_undeclared(h, t, schema, parent_node, entry) ==
    LET w == StripDots(h, entry.rel, h[schema].parent, <<parent_node>>)
    IN  IF w.error THEN "error"
        ELSE IF w.schema_target = 0 \/ ~IsNodeDesc(h[w.schema_target])
                \/ w.node_target = <<>>
        THEN "error"
        ELSE LET sibling_names == Range(PropNames(t, w.node_target[1]))
                                    \cup Range(SubnodeNames(t, w.node_target[1]))
                 there  == Len(w.name) = 1 /\ w.name[1] \in sibling_names
             IN  IF entry.value # there THEN "conflict" ELSE "ok"

\* One (rel_name, value) entry of conditional_props: "ok" when it lets the
\* element be present, "conflict" when the code returns False for it,
\* "error" when the code raises (schema_target has no element list, or
\* node_target is None).
CondEntry(h, t, schema, parent_node, entry) ==
    LET w == StripDots(h, entry.rel, h[schema].parent, <<parent_node>>)
    IN  IF w.error THEN "error"
        ELSE IF w.schema_target = 0 \/ ~IsNodeDesc(h[w.schema_target])
                \/ w.node_target = <<>>
        THEN "error"
        ELSE LET parent_props == {h[e].name : e \in Range(h[w.schema_target].elements)}
                 sibling_names == Range(PropNames(t, w.node_target[1]))
                                    \cup Range(SubnodeNames(t, w.node_target[1]))
                 known  == Len(w.name) = 1 /\ w.name[1] \in parent_props
                 there  == Len(w.name) = 1 /\ w.name[1] \in sibling_names
             IN  IF known /\ entry.value # there THEN "conflict" ELSE "ok"

RECURSIVE CondLoop(_, _, _, _, _)
CondLoop(h, t, schema, parent_node, entries) ==
    IF entries = <<>> THEN "ok"
    ELSE LET r == CondEntry(h, t, schema, parent_node, Head(entries))
         IN  IF r = "ok" THEN CondLoop(h, t, schema, parent_node, Tail(entries))
             ELSE r

\* element_present(schema, parent_node) with a known parent_node
element_present(h, t, schema, parent_node) ==
    CondLoop(h, t, schema, parent_node, h[schema].conditional_props) = "ok"

\* element_present raises instead of returning
element_present_raises(h, t, schema, parent_node) ==
    CondLoop(h, t, schema, parent_node, h[schema].conditional_props) = "error"

\* The loop of get_element over schema.elements, from the i-th on.
RECURSIVE get_element_from(_, _, _, _, _, _, _)
get_element_from(h, t, schema, name, node, expected, i) ==
    LET elements == h[schema].elements IN
    IF i > Len(elements)
    THEN IF expected = "PropDesc"
            /\ (name = "linux,phandle" \/ is_builtin_property(t, node, name))
         THEN [element |-> 0, needed |-> FALSE, error |-> FALSE]
         ELSE [element |-> 0, needed |-> TRUE, error |-> FALSE]
    ELSE LET element == elements[i] IN
         IF element_present_raises(h, t, element, node)
         THEN [element |-> 0, needed |-> TRUE, error |-> TRUE]
         ELSE IF ~element_present(h, t, element, node)
         THEN get_element_from(h, t, schema, name, node, expected, i + 1)
         ELSE IF h[element].name = name
         THEN [element |-> element, needed |-> TRUE, error |-> FALSE]
         ELSE IF expected \in {"None", "NodeDesc"} /\ IsNodeAny(h[element])
         THEN [element |-> element, needed |-> TRUE, error |-> FALSE]
         ELSE IF expected \in {"None", "PropDesc"} /\ IsPropAny(h[element])
         THEN [element |-> element, needed |-> TRUE, error |-> FALSE]
         ELSE get_element_from(h, t, schema, name, node, expected, i + 1)

\* get_element(schema, name, node, expected): the element found (0 for
\* None), whether the name needs a schema, and whether the lookup raised.
get_element(h, t, schema, name, node, expected) ==
    get_element_from(h, t, schema, name, node, expected, 1)

\* The record of one get_element call
Call(h, t, schema, name, node, expected) ==
    [schema |-> schema, name |-> name, node |-> node, expected |-> expected,
     element |-> get_element(h, t, schema, name, node, expected).element]

\* Some element_present(e, node) for e in es raises
AnyRaises(h, t, es, node) ==
    \E i \in 1..Len(es) : element_present_raises(h, t, es[i], node)

NamesOf(h, es) == [i \in 1..Len(es) |-> h[es[i]].name]

\* get_schema_of with a fault: an unmatched node is skipped without a finding
get_schema_of_silent(h, t, node, parent_schema) ==
    LET r == get_element(h, t, parent_schema, NodeName(node), Front(node), "NodeDesc")
    IN  IF r.error THEN [did |-> Crash, schema |-> 0]
        ELSE [did |-> Nothing, schema |-> r.element]

\* get_schema(node, parent_schema): what it did and the schema it returns
get_schema_of(h, t, node, parent_schema) ==
    LET r == get_element(h, t, parent_schema, NodeName(node), Front(node), "NodeDesc")
        elements == SelectSeq(get_nodes(h, parent_schema),
                              LAMBDA e : element_present(h, t, e, Front(node)))
    IN  IF r.error THEN [did |-> Crash, schema |-> 0]
        ELSE IF r.element = 0 /\ r.needed
        THEN IF AnyRaises(h, t, get_nodes(h, parent_schema), Front(node))
             THEN [did |-> Crash, schema |-> 0]
             ELSE [did |-> Did(<<Finding(Dirname(node), "Unexpected subnode",
                                         NodeName(node), NamesOf(h, elements))>>,
                               FALSE),
                   schema |-> 0]
        ELSE [did |-> Nothing, schema |-> r.element]

\* re.match('^' + pattern + '$', name) for the name patterns of schema.py
\* and the node names of the documents
ReMatch(pattern, name) ==
    CASE pattern = "image-\\d+"   -> name \in {"image-1"}
      [] pattern = "[a-z-]+-\\d+" -> name \in {"image-1", "kernel-1", "config-1",
                                                "conf-1", "hash-1"}
      [] pattern = "config-\\d+"  -> name \in {"config-1"}
      [] pattern = "conf-\\d+"    -> name \in {"conf-1"}
      [] OTHER -> FALSE

\* validate_node with a fault: the name is not checked
validate_node_unchecked(h, schema, node) == Nothing

\* schema.validate(self, node), the first statement of _validate_schema,
\* for a node-kind schema: NodeAny.validate_node checks the name, the other
\* node classes check nothing.
validate_node(h, schema, node) ==
    IF IsNodeAny(h[schema]) /\ h[schema].name_pattern # ""
            /\ ~ReMatch(h[schema].name_pattern, NodeName(node))
    THEN Did(<<Finding(node, "Node name does not match pattern", NodeName(node),
                       <<h[schema].name_pattern>>)>>, FALSE)
    ELSE Nothing

\* validate_prop with a fault: #address-cells must be 2
validate_prop_cells2(h, element, node, prop) ==
    CASE IsPropInt(h[element]) ->
            IF prop.type # "INT"
            THEN Did(<<Finding(node, "must be a u32", prop.name, <<>>)>>, FALSE)
            ELSE Nothing
      [] h[element].cls = "PropAddressCells" ->
            IF prop.type # "INT"
            THEN Did(<<Finding(node, "must be a u32", prop.name, <<>>)>>, TRUE)
            ELSE IF prop.value \notin {2} THEN Crash
            ELSE Nothing
      [] OTHER -> Nothing

\* element.validate(self, prop) for a property-kind element
validate_prop(h, element, node, prop) ==
    CASE IsPropInt(h[element]) ->
            IF prop.type # "INT"
            THEN Did(<<Finding(node, "must be a u32", prop.name, <<>>)>>, FALSE)
            ELSE Nothing
      \* PropAddressCells.validate_prop rebinds val to the decoded value
      \* before it calls val.fail: an int has no fail.  fdt32_to_cpu
      \* unpacks one 32-bit cell and raises on any other value.
      [] h[element].cls = "PropAddressCells" ->
            IF prop.type # "INT"
            THEN Did(<<Finding(node, "must be a u32", prop.name, <<>>)>>, TRUE)
            ELSE IF prop.value \notin {1, 2} THEN Crash
            ELSE Nothing
      [] OTHER -> Nothing

\* validate_one_prop with a fault: phandle is reported like any other name
validate_one_prop_plain(h, t, schema, node, prop, schema_props) ==
    LET r == get_element(h, t, schema, prop.name, node, "PropDesc") IN
    IF prop.name = "linux,phandle" THEN Nothing
    ELSE IF r.error THEN Crash
    ELSE IF r.element = 0 \/ ~IsPropDesc(h[r.element])
    THEN IF ~is_builtin_property(t, node, prop.name)
         THEN Did(<<Finding(node, "Unexpected property", prop.name, schema_props)>>,
                  FALSE)
         ELSE Nothing
    ELSE validate_prop(h, r.element, node, prop)

\* One turn of the property loop of _validate_schema
validate_one_prop(h, t, schema, node, prop, schema_props) ==
    LET r == get_element(h, t, schema, prop.name, node, "PropDesc") IN
    IF prop.name = "linux,phandle" THEN Nothing
    ELSE IF r.error THEN Crash
    ELSE IF r.element = 0 \/ ~IsPropDesc(h[r.element])
    THEN IF prop.name = "phandle"
         THEN Did(<<Finding(node, "phandle target not valid for this node",
                            prop.name, <<>>)>>, FALSE)
         ELSE IF ~is_builtin_property(t, node, prop.name)
         THEN Did(<<Finding(node, "Unexpected property", prop.name, schema_props)>>,
                  FALSE)
         ELSE Nothing
    ELSE validate_prop(h, r.element, node, prop)

\* present_props with a fault: the elements are not tested for presence
present_props_all(h, t, schema, node) ==
    SelectSeq(h[schema].elements, LAMBDA e : IsPropDesc(h[e]))

\* isinstance(e, PropDesc) and element_present(e, node), for e in schema.elements
present_props(h, t, schema, node) ==
    SelectSeq(h[schema].elements,
              LAMBDA e : IsPropDesc(h[e]) /\ element_present(h, t, e, node))

prop_elements(h, schema) == SelectSeq(h[schema].elements, LAMBDA e : IsPropDesc(h[e]))

\* _validate_schema, lines 196-215: schema_props and the property loop
validate_props(h, t, schema, node) ==
    LET props == NodeAt(t, node).props
        schema_props == NamesOf(h, present_props(h, t, schema, node))
    IN  IF AnyRaises(h, t, prop_elements(h, schema), node) THEN Crash
        ELSE Then([i \in 1..Len(props) |->
                     validate_one_prop(h, t, schema, node, props[i], schema_props)])

\* The get_element calls of the property loop, as far as it got: the loop
\* ends at the first exception, which under raise_on_error any fail is.
prop_calls(h, t, schema, node, raising) ==
    LET props == NodeAt(t, node).props
        ends(i) == LET d == validate_one_prop(h, t, schema, node, props[i], <<>>)
                   IN  d.crash \/ (raising /\ d.fails # <<>>)
        reached == {i \in 1..Len(props) : \A j \in 1..(i - 1) : ~ends(j)}
        looked == SelectSeq([i \in 1..Len(props) |-> [i |-> i, p |-> props[i]]],
                            LAMBDA x : x.i \in reached /\ x.p.name # "linux,phandle")
    IN  IF AnyRaises(h, t, prop_elements(h, schema), node) THEN <<>>
        ELSE [i \in 1..Len(looked) |->
                Call(h, t, schema, looked[i].p.name, node, "PropDesc")]

\* check_one_required with a fault: the test of element.required is inverted
check_one_required_inverted(h, t, schema, node, e) ==
    IF ~IsPropDesc(h[e]) THEN Nothing
    ELSE IF element_present_raises(h, t, e, node) THEN Crash
    ELSE IF ~element_present(h, t, e, node) THEN Nothing
    ELSE IF ~h[e].required /\ h[e].name \notin Range(PropNames(t, node))
    THEN Did(<<Finding(node, "Required property missing", h[e].name, <<>>)>>, FALSE)
    ELSE Nothing

\* One turn of the loop over the required properties
check_one_required(h, t, schema, node, e) ==
    IF ~IsPropDesc(h[e]) THEN Nothing
    ELSE IF element_present_raises(h, t, e, node) THEN Crash
    ELSE IF ~element_present(h, t, e, node) THEN Nothing
    ELSE IF h[e].required /\ h[e].name \notin Range(PropNames(t, node))
    THEN Did(<<Finding(node, "Required property missing", h[e].name, <<>>)>>, FALSE)
    ELSE Nothing

\* _validate_schema, lines 218-225: the required properties
check_required(h, t, schema, node) ==
    LET es == h[schema].elements
    IN  Then([i \in 1..Len(es) |-> check_one_required(h, t, schema, node, es[i])])

\* check_one_subnode with a fault: only a node without subnodes is reported
check_one_subnode_bare(h, t, schema, node, e) ==
    LET subnode_names == SubnodeNames(t, node) IN
    IF ~IsNodeDesc(h[e]) \/ ~h[e].required THEN Nothing
    ELSE IF element_present_raises(h, t, e, node) THEN Crash
    ELSE IF ~element_present(h, t, e, node) THEN Nothing
    ELSE IF subnode_names = <<>>
    THEN Did(<<Finding(node, "Missing subnode", h[e].name, subnode_names)>>, FALSE)
    ELSE Nothing

\* One turn of the loop over the required subnodes
check_one_subnode(h, t, schema, node, e) ==
    LET subnode_names == SubnodeNames(t, node) IN
    IF ~IsNodeDesc(h[e]) \/ ~h[e].required THEN Nothing
    ELSE IF element_present_raises(h, t, e, node) THEN Crash
    ELSE IF ~element_present(h, t, e, node) THEN Nothing
    ELSE IF h[e].name \notin Range(subnode_names)
    THEN Did(<<Finding(node, "Missing subnode", h[e].name, subnode_names)>>, FALSE)
    ELSE Nothing

\* _validate_schema, lines 228-237: the required subnodes
check_subnodes(h, t, schema, node) ==
    LET es == h[schema].elements
    IN  Then([i \in 1..Len(es) |-> check_one_subnode(h, t, schema, node, es[i])])

(***************************************************************************)
(* The program: schema.get_schema, FdtValidator(schema, raise_on_error)    *)
(* and start, whose traversal is followed frame by frame.  A frame of      *)
(* _validate_tree holds its node, its parent_schema, the schema it         *)
(* resolved (0 before) and the statement it is at.                         *)
(***************************************************************************)
Frame(node, parent_schema, schema, at, child) ==
    [node |-> node, parent_schema |-> parent_schema, schema |-> schema,
     at |-> at, child |-> child]

NoRun == [outcome |-> "none", fdt |-> <<>>, errors |-> <<>>]

\* run_fit_validate has not been called
NoDriver == [status |-> "none", files |-> <<>>, next |-> 0, found_errors |-> FALSE,
             shown |-> <<>>, results |-> <<>>]

Init ==
    /\ pc = "init"
    /\ args_upl = FALSE
    /\ heap = <<>>
    /\ root = 0
    /\ adds = 0
    /\ v_schema = 0
    /\ raise_on_error = FALSE
    /\ errors = <<>>
    /\ fdt = <<>>
    /\ stack = <<>>
    /\ runs = 0
    /\ first = NoRun
    /\ validated = {}
    /\ logged = <<>>
    /\ skipped = {}
    /\ calls = <<>>
    /\ ph = [state |-> "none"]
    /\ drv = NoDriver
    /\ ep = [state |-> "none"]

\* schema.get_schema(args.upl)
GetSchema ==
    /\ pc = "init"
    /\ \E u \in BOOLEAN :
          /\ args_upl' = u
          /\ heap' = get_schema(u).heap
          /\ root' = get_schema(u).schema
    /\ pc' = "built"
    /\ UNCHANGED <<adds, v_schema, raise_on_error, errors, fdt, stack, runs,
                   first, validated, logged, skipped, calls, ph, drv, ep>>

\* The elements a caller adds to a wildcard node of the schema
AddChoices == {PropAny, PropString("extra", TRUE, NoCond), PropPhandleTarget}

\* node.add_element(elem) on a NodeAny of the built schema, elem a new element
AddElement ==
    /\ pc = "built"
    /\ adds < MaxAdd
    /\ \E self \in 1..Len(heap), e \in AddChoices :
          /\ IsNodeAny(heap[self])
          /\ heap' = add_element(New(heap, e), self, Len(heap) + 1)
    /\ adds' = adds + 1
    /\ UNCHANGED <<pc, args_upl, root, v_schema, raise_on_error, errors, fdt, stack,
                   runs, first, validated, logged, skipped, calls, ph, drv, ep>>

\* FdtValidator.__init__(schema, raise_on_error)
NewValidator ==
    /\ pc = "built"
    /\ \E r \in BOOLEAN : raise_on_error' = r
    /\ v_schema' = root
    /\ errors' = <<>>
    /\ pc' = "idle"
    /\ UNCHANGED <<args_upl, heap, root, adds, fdt, stack, runs, first, validated,
                   logged, skipped, calls, ph, drv, ep>>

\* fail with a fault: a finding is put at the head of the list
fail_at_head(errs, fails, raising) ==
    IF raising /\ fails # <<>> THEN <<Head(fails)>> \o errs ELSE fails \o errs

\* FdtValidator.fail under the engine's mode, for the calls a piece of code
\* makes: the error list afterwards.  With raise_on_error the first call
\* raises, so nothing after it is appended.
fail(errs, fails, raising) ==
    IF raising /\ fails # <<>> THEN Append(errs, Head(fails)) ELSE errs \o fails

\* fail raised ValueError
fail_raised(fails, raising) == raising /\ fails # <<>>

\* start_errors with a fault: the list of the run before is kept
start_errors_kept(errs) == errs

\* start, line 298: self._errors = []
start_errors(errs) == <<>>

\* How a step of the run ends: "run" while frames are left, "done" when
\* _validate_tree returned to start, "raised" when fail raised, "crashed"
\* on any other exception.
Outcome(d, rest) ==
    IF fail_raised(d.fails, raise_on_error) THEN "raised"
    ELSE IF d.crash THEN "crashed"
    ELSE IF rest = <<>> THEN "done"
    ELSE "run"

\* A step that did d and would go on with the frames rest
Step(d, rest) ==
    /\ errors' = fail(errors, d.fails, raise_on_error)
    /\ logged' = fail(logged, d.fails, raise_on_error)
    /\ pc' = Outcome(d, rest)
    /\ stack' = IF Outcome(d, rest) = "run" THEN rest ELSE <<>>
    /\ first' = IF runs = 1 /\ Outcome(d, rest) # "run"
                THEN [outcome |-> Outcome(d, rest), fdt |-> fdt,
                      errors |-> fail(errors, d.fails, raise_on_error)]
                ELSE first

Top == Last(stack)

At(at) == pc = "run" /\ stack # <<>> /\ Top.at = at

Goto(at) == Append(Front(stack), [Top EXCEPT !.at = at])

\* start(fname), lines 296-303: the run's state is reset and the traversal
\* begins at the root with the engine's schema
StartOn(t) ==
    /\ pc \in {"idle", "done", "raised", "crashed"}
    /\ errors' = start_errors(errors)
    /\ fdt' = t
    /\ stack' = <<Frame(<<>>, v_schema, 0, "enter", 1)>>
    /\ pc' = "run"
    /\ runs' = runs + 1
    /\ validated' = {}
    /\ logged' = <<>>
    /\ skipped' = {}
    /\ calls' = <<>>
    /\ UNCHANGED <<args_upl, heap, root, adds, v_schema, raise_on_error, first, ph, ep>>

Start ==
    /\ adds = 0
    /\ runs < MaxRuns
    /\ \E t \in Trees : StartOn(t)
    /\ UNCHANGED drv

\* start on an engine whose schema the caller has extended
StartExt ==
    /\ runs = 0
    /\ \E t \in ExtTrees : StartOn(t)
    /\ UNCHANGED drv

\* _validate_tree, lines 269-274: the root takes parent_schema, any other
\* node the schema get_schema finds, and returns when there is none
Enter ==
    /\ At("enter")
    /\ LET f == Top
           g == IF f.node = <<>>
                THEN [did |-> Nothing, schema |-> f.parent_schema]
                ELSE get_schema_of(heap, fdt, f.node, f.parent_schema)
       IN  /\ Step(g.did, IF g.schema = 0 THEN Front(stack)
                          ELSE Append(Front(stack),
                                      [f EXCEPT !.schema = g.schema, !.at = "node"]))
           /\ calls' = IF f.node = <<>> THEN <<>>
                       ELSE <<Call(heap, fdt, f.parent_schema, NodeName(f.node),
                                   Front(f.node), "NodeDesc")>>
           /\ skipped' = IF f.node # <<>> /\ g.schema = 0 /\ ~g.did.crash
                         THEN skipped \cup {f.node} ELSE skipped
    /\ UNCHANGED <<args_upl, heap, root, adds, v_schema, raise_on_error, fdt, runs,
                   validated, ph, drv, ep>>

\* _validate_schema, line 195: schema.validate(self, node).  A schema that
\* is a property element has no element list: its validate_prop, or line
\* 196 after it, raises AttributeError.
ValidateNode ==
    /\ At("node")
    /\ Step(IF IsPropDesc(heap[Top.schema]) THEN Crash
            ELSE validate_node(heap, Top.schema, Top.node),
            Goto("props"))
    /\ validated' = validated \cup {[node |-> Top.node, schema |-> Top.schema]}
    /\ calls' = <<>>
    /\ UNCHANGED <<args_upl, heap, root, adds, v_schema, raise_on_error, fdt, runs,
                   skipped, ph, drv, ep>>

\* _validate_schema, lines 196-215
ValidateProps ==
    /\ At("props")
    /\ Step(validate_props(heap, fdt, Top.schema, Top.node), Goto("required"))
    /\ calls' = prop_calls(heap, fdt, Top.schema, Top.node, raise_on_error)
    /\ UNCHANGED <<args_upl, heap, root, adds, v_schema, raise_on_error, fdt, runs,
                   validated, skipped, ph, drv, ep>>

\* _validate_schema, lines 218-225
CheckRequired ==
    /\ At("required")
    /\ Step(check_required(heap, fdt, Top.schema, Top.node), Goto("subnodes"))
    /\ calls' = <<>>
    /\ UNCHANGED <<args_upl, heap, root, adds, v_schema, raise_on_error, fdt, runs,
                   validated, skipped, ph, drv, ep>>

\* _validate_schema, lines 228-237
CheckSubnodes ==
    /\ At("subnodes")
    /\ Step(check_subnodes(heap, fdt, Top.schema, Top.node), Goto("children"))
    /\ calls' = <<>>
    /\ UNCHANGED <<args_upl, heap, root, adds, v_schema, raise_on_error, fdt, runs,
                   validated, skipped, ph, drv, ep>>

\* _validate_tree, lines 277-278: the next subnode, or the return
Descend ==
    /\ At("children")
    /\ LET f == Top
           subnodes == Subnodes(fdt, f.node)
       IN  Step(Nothing,
                IF f.child <= Len(subnodes)
                THEN Append(Front(stack), [f EXCEPT !.child = f.child + 1])
                        \o <<Frame(subnodes[f.child].path, f.schema, 0, "enter", 1)>>
                ELSE Front(stack))
    /\ calls' = <<>>
    /\ UNCHANGED <<args_upl, heap, root, adds, v_schema, raise_on_error, fdt, runs,
                   validated, skipped, ph, drv, ep>>

Run == Enter \/ ValidateNode \/ ValidateProps \/ CheckRequired \/ CheckSubnodes
         \/ Descend

\* run_fit_validate's use: get_schema, one engine, start once per file
Next == GetSchema \/ NewValidator \/ Start \/ Run

Spec == Init /\ [][Next]_vars

\* A caller that adds elements to the wildcard nodes of the schema first
NextExt == GetSchema \/ AddElement \/ NewValidator \/ StartExt \/ Run

SpecExt == Init /\ [][NextExt]_vars

(***************************************************************************)
(* elements.py: check_phandle_target                                       *)
(*                                                                         *)
(* A string is a sequence of tokens: the separator "/" and names, which    *)
(* hold no separator.  A segment, the text between two separators, is the  *)
(* sequence of the tokens in it.                                           *)
(***************************************************************************)
\* s.split('/'), from the segment cur on
RECURSIVE SplitFrom(_, _)
SplitFrom(s, cur) ==
    IF s = <<>> THEN <<cur>>
    ELSE IF Head(s) = "/" THEN <<cur>> \o SplitFrom(Tail(s), <<>>)
    ELSE SplitFrom(Tail(s), Append(cur, Head(s)))

Split(s) == SplitFrom(s, <<>>)

\* node.path as a string: '/' for the root, '/a/b' below it
RECURSIVE PathStr(_)
PathStr(path) ==
    IF path = <<>> THEN <<"/">>
    ELSE IF Len(path) = 1 THEN <<"/", path[1]>>
    ELSE PathStr(Front(path)) \o <<"/", Last(path)>>

\* '/'.join(segs): the string that splits into the segments segs, each the
\* empty text "" or a name
RECURSIVE Join(_)
Join(segs) ==
    LET text(x) == IF x = "" THEN <<>> ELSE <<x>>
    IN  IF Len(segs) = 1 THEN text(segs[1])
        ELSE Join(Front(segs)) \o <<"/">> \o text(Last(segs))

\* The for loop of check_phandle_target, from the i-th part on
RECURSIVE MatchParts(_, _, _, _)
MatchParts(parts, target_parts, i, valid) ==
    IF i > Len(parts) THEN valid
    ELSE IF parts[i] = <<"ANY">>
    THEN MatchParts(parts, target_parts, i + 1, valid)
    ELSE IF parts[i] # target_parts[i]
    THEN MatchParts(parts, target_parts, i + 1, FALSE)
    ELSE MatchParts(parts, target_parts, i + 1, valid)

\* check_phandle_target with a fault: a longer target is let through
check_phandle_target_longer(target_path, target_path_match) ==
    LET parts == Split(target_path_match)
        target_parts == Split(target_path)
        valid == Len(parts) <= Len(target_parts)
    IN  IF valid THEN MatchParts(parts, target_parts, 1, valid) ELSE valid

\* check_phandle_target(target, target_path_match), target.path given
check_phandle_target(target_path, target_path_match) ==
    LET parts == Split(target_path_match)
        target_parts == Split(target_path)
        valid == Len(parts) = Len(target_parts)
    IN  IF valid THEN MatchParts(parts, target_parts, 1, valid) ELSE valid

\* The segments of the templates and the node names of the targets tried
TemplateSegs == {"", "a", "b", "ANY"}

TargetNames == {"a", "b", "x", "y"}

SeqsUpTo(S, n) == UNION {[1..k -> S] : k \in 0..n}

InitPhandle ==
    /\ pc = "init"
    /\ args_upl = FALSE
    /\ heap = <<>>
    /\ root = 0
    /\ adds = 0
    /\ v_schema = 0
    /\ raise_on_error = FALSE
    /\ errors = <<>>
    /\ fdt = <<>>
    /\ stack = <<>>
    /\ runs = 0
    /\ first = NoRun
    /\ validated = {}
    /\ logged = <<>>
    /\ skipped = {}
    /\ calls = <<>>
    /\ \E segs \in SeqsUpTo(TemplateSegs, MaxSegs + 1) \ {<<>>},
          path \in SeqsUpTo(TargetNames, MaxSegs) :
          ph = [state |-> "called", segs |-> segs, path |-> path, valid |-> FALSE]
    /\ drv = NoDriver
    /\ ep = [state |-> "none"]

\* check_phandle_target(target, template) is called and returns
CheckPhandle ==
    /\ ph.state = "called"
    /\ ph' = [ph EXCEPT !.state = "returned",
                        !.valid = check_phandle_target(PathStr(ph.path),
                                                       Join(ph.segs))]
    /\ UNCHANGED <<pc, args_upl, heap, root, adds, v_schema, raise_on_error, errors,
                   fdt, stack, runs, first, validated, logged, skipped, calls, drv, ep>>

SpecPhandle == InitPhandle /\ [][CheckPhandle]_vars

(***************************************************************************)
(* validate.py: run_fit_validate, the command-line driver.  It builds the  *)
(* schema and one engine, calls start once per file, shows the findings of *)
(* each file that has any, and returns its status.                         *)
(***************************************************************************)
\* The files of the command line: documents of the variant asked for
DriverTrees(upl) == {Edit(e, upl) : e \in {"none", "missing", "extra", "cells-3"}}

\* run_fit_validate, lines 82-88: parse_args, get_schema(args.upl) and
\* FdtValidator(schema, args.raise_on_error)
RunFitValidate ==
    /\ pc = "init"
    /\ \E u \in BOOLEAN, r \in BOOLEAN :
          /\ args_upl' = u
          /\ heap' = get_schema(u).heap
          /\ root' = get_schema(u).schema
          /\ v_schema' = get_schema(u).schema
          /\ raise_on_error' = r
          /\ \E fs \in SeqsUpTo(DriverTrees(u), MaxFiles) :
                drv' = [status |-> "running", files |-> fs, next |-> 1,
                        found_errors |-> FALSE, shown |-> <<>>, results |-> <<>>]
    /\ errors' = <<>>
    /\ pc' = "idle"
    /\ UNCHANGED <<adds, fdt, stack, runs, first, validated, logged, skipped,
                   calls, ph, ep>>

\* lines 90-91: the next file is handed to validator.start
DriverStart ==
    /\ drv.status = "running"
    /\ pc = "idle"
    /\ drv.next <= Len(drv.files)
    /\ StartOn(drv.files[drv.next])
    /\ UNCHANGED drv

\* lines 92-96: start returned; a list that is not empty is shown
DriverShow ==
    /\ drv.status = "running"
    /\ pc = "done"
    /\ drv' = [drv EXCEPT
                 !.found_errors = @ \/ errors # <<>>,
                 !.shown = IF errors # <<>>
                           THEN Append(@, [file |-> drv.next, errors |-> errors])
                           ELSE @,
                 !.results = Append(@, errors),
                 !.next = @ + 1]
    /\ pc' = "idle"
    /\ UNCHANGED <<args_upl, heap, root, adds, v_schema, raise_on_error, errors, fdt,
                   stack, runs, first, validated, logged, skipped, calls, ph, ep>>

\* lines 97-101: the ValueError of fail is caught; the handler reads
\* args.debug, which parse_args never defines, so AttributeError leaves
\* run_fit_validate before anything is printed or returned
DriverExcept ==
    /\ drv.status = "running"
    /\ pc = "raised"
    /\ drv' = [drv EXCEPT !.status = "exception"]
    /\ pc' = "exited"
    /\ UNCHANGED <<args_upl, heap, root, adds, v_schema, raise_on_error, errors, fdt,
                   stack, runs, first, validated, logged, skipped, calls, ph, ep>>

\* An exception of start that is not a ValueError passes the except clause
DriverPropagate ==
    /\ drv.status = "running"
    /\ pc = "crashed"
    /\ drv' = [drv EXCEPT !.status = "exception"]
    /\ pc' = "exited"
    /\ UNCHANGED <<args_upl, heap, root, adds, v_schema, raise_on_error, errors, fdt,
                   stack, runs, first, validated, logged, skipped, calls, ph, ep>>

\* lines 102-105: the loop is over; 1 if found_errors, else 0
DriverReturn ==
    /\ drv.status = "running"
    /\ pc = "idle"
    /\ drv.next > Len(drv.files)
    /\ drv' = [drv EXCEPT !.status = IF drv.found_errors THEN "1" ELSE "0"]
    /\ pc' = "exited"
    /\ UNCHANGED <<args_upl, heap, root, adds, v_schema, raise_on_error, errors, fdt,
                   stack, runs, first, validated, logged, skipped, calls, ph, ep>>

NextDriver == RunFitValidate \/ DriverStart \/ Run \/ DriverShow \/ DriverExcept
                \/ DriverPropagate \/ DriverReturn

SpecDriver == Init /\ [][NextDriver]_vars

(***************************************************************************)
(* fdt_validate.py: element_present on its own.  The schema is a root      *)
(* NodeDesc with a property 'a' and a node 'n', which holds the element    *)
(* 'x' under test and a property 'b'; the document is a root with a node   *)
(* 'n'.  The conditional_props of 'x' and the properties and subnodes of   *)
(* the document are drawn.                                                 *)
(***************************************************************************)
CondNames == {"a", "b", "c"}

\* The keys of conditional_props: a name, or '../' and a name
CondKeys == {<<n>> : n \in CondNames} \cup {<<"../", n>> : n \in CondNames}

\* dicts of up to MaxCond entries, in insertion order
CondDicts ==
    {c \in SeqsUpTo([rel : CondKeys, value : BOOLEAN], MaxCond) :
        \A i, j \in 1..Len(c) : i # j => c[i].rel # c[j].rel}

\* NodeDesc('/', True, [PropString('a'),
\*                      NodeDesc('n', False, [PropString('x', False, cond),
\*                                            PropString('b')])])
PresentSchema(cond) ==
    LET h1 == NewAll(<<>>, <<PropString("x", FALSE, cond),
                             PropString("b", FALSE, NoCond)>>)
        h2 == NodeDesc_init(h1, "NodeDesc", "n", FALSE, <<1, 2>>, "")
        h3 == New(h2, PropString("a", FALSE, NoCond))
        h4 == NodeDesc_init(h3, "NodeDesc", "/", TRUE, <<4, 3>>, "")
    IN  [heap |-> h4, schema |-> 5, element |-> 1]

PropsOf(names, S) ==
    LET chosen == SelectSeq(names, LAMBDA n : n \in S)
    IN  [i \in 1..Len(chosen) |-> StrProp(chosen[i])]

PresentTrees ==
    {<<TreeNode(<<>>, PropsOf(<<"a", "c">>, R)),
       TreeNode(<<"n">>, PropsOf(<<"b", "c">>, N))>>
       \o (IF sub THEN <<TreeNode(<<"n", "b">>, <<>>)>> ELSE <<>>) :
     R \in SUBSET {"a", "c"}, N \in SUBSET {"b", "c"}, sub \in BOOLEAN}

InitPresent ==
    /\ pc = "init"
    /\ args_upl = FALSE
    /\ adds = 0
    /\ v_schema = 0
    /\ raise_on_error = FALSE
    /\ errors = <<>>
    /\ stack = <<>>
    /\ runs = 0
    /\ first = NoRun
    /\ validated = {}
    /\ logged = <<>>
    /\ skipped = {}
    /\ calls = <<>>
    /\ ph = [state |-> "none"]
    /\ drv = NoDriver
    /\ \E cond \in CondDicts :
          /\ heap = PresentSchema(cond).heap
          /\ root = PresentSchema(cond).schema
          /\ ep = [state |-> "called", element |-> PresentSchema(cond).element,
                   parent_node |-> <<"n">>, result |-> FALSE]
    /\ fdt \in PresentTrees

\* element_present(schema, parent_node) is called and returns
CheckPresent ==
    /\ ep.state = "called"
    /\ ~element_present_raises(heap, fdt, ep.element, ep.parent_node)
    /\ ep' = [ep EXCEPT !.state = "returned",
                        !.result = element_present(heap, fdt, ep.element,
                                                   ep.parent_node)]
    /\ UNCHANGED <<pc, args_upl, heap, root, adds, v_schema, raise_on_error, errors,
                   fdt, stack, runs, first, validated, logged, skipped, calls, ph,
                   drv>>

SpecPresent == InitPresent /\ [][CheckPresent]_vars

(***************************************************************************)
(* Properties                                                              *)
(***************************************************************************)
Findings(loc, kind, name) ==
    {i \in 1..Len(errors) :
        errors[i].loc = loc /\ errors[i].kind = kind /\ errors[i].name = name}

\* The node-kind schemas _validate_schema was called with in this run
Visited == {v \in validated : IsNodeDesc(heap[v.schema])}

\* The elements of schema present for node (node the parent of a looked-up
\* subnode, or the owner of a looked-up property)
Present(schema, node) ==
    {e \in Range(heap[schema].elements) : element_present(heap, fdt, e, node)}

\* C1: every get_element call made while the present elements of its schema
\* include one whose name is the name looked up returns that element, also
\* when a wildcard acceptable for the expected kind stands before it.
C1_ExactNameWins ==
    \A i \in 1..Len(calls) :
        LET c == calls[i]
            exact == {e \in Present(c.schema, c.node) : heap[e].name = c.name}
        IN  exact # {} => c.element \in exact

\* Following parent references from e reaches the root within n steps
RECURSIVE ReachesRoot(_, _)
ReachesRoot(e, n) ==
    \/ e = root
    \/ /\ n > 0
       /\ heap[e].parent # 0
       /\ heap[e].parent # e
       /\ ReachesRoot(heap[e].parent, n - 1)

\* C9: in every schema built by construction and add_element calls, each
\* element other than the root has as parent the node element whose list
\* holds it, and its parent chain ends at the root.
C9_ParentTree ==
    pc # "init" =>
        \A e \in 1..Len(heap) :
            e # root =>
                /\ heap[e].parent # 0
                /\ IsNodeDesc(heap[heap[e].parent])
                /\ e \in Range(heap[heap[e].parent].elements)
                /\ ReachesRoot(e, Len(heap))

\* start returned its list without raise_on_error
Returned == pc = "done" /\ ~raise_on_error

\* No present element of schema matches a subnode called name: none has
\* that name and none is a node wildcard
UnmatchedNode(schema, parent, name) ==
    \A e \in Present(schema, parent) : heap[e].name # name /\ ~IsNodeAny(heap[e])

\* The nodes of the tree below a visited node that its schema does not match
Unexpected ==
    {n \in {fdt[i].path : i \in 1..Len(fdt)} :
        /\ n # <<>>
        /\ \E v \in Visited :
              v.node = Front(n) /\ UnmatchedNode(v.schema, Front(n), Last(n))}

\* C2: a node that no present element of its parent's resolved schema
\* matches is never passed to _validate_schema, nor is any node below it,
\* no finding is located at it or below it, and the list start returns
\* holds exactly one "Unexpected subnode" finding for it, at its parent.
C2_UnexpectedSubnodeSkipped ==
    \A n \in Unexpected :
        /\ \A v \in validated : ~IsPrefix(n, v.node)
        /\ \A i \in 1..Len(errors) : ~IsPrefix(n, errors[i].loc)
        /\ pc = "done" =>
              Cardinality(Findings(Front(n), "Unexpected subnode", Last(n))) = 1

C2_Witness ==
    /\ Returned
    /\ \E n \in Unexpected : \E i \in 1..Len(fdt) :
          fdt[i].path # n /\ IsPrefix(n, fdt[i].path)

\* C3: for every visited node and every required property element of its
\* schema that has no conditional_props and that the node lacks, the list
\* start returns holds exactly one "Required property missing" finding; the
\* skeleton without 'project' and 'firmware' yields exactly those two.
C3_RequiredPropertyMissing ==
    pc = "done" =>
        /\ \A v \in Visited : \A e \in Range(heap[v.schema].elements) :
              (/\ IsPropDesc(heap[e])
               /\ heap[e].required
               /\ heap[e].conditional_props = <<>>
               /\ heap[e].name \notin Range(PropNames(fdt, v.node)))
              => Cardinality(Findings(v.node, "Required property missing",
                                      heap[e].name)) = 1
        /\ (args_upl /\ fdt = Edit("missing", TRUE)) =>
              errors = << Finding(ImagePath, "Required property missing",
                                  "project", <<>>),
                          Finding(ConfigPath(TRUE), "Required property missing",
                                  "firmware", <<>>) >>

C3_Witness == Returned /\ args_upl /\ fdt = Edit("missing", TRUE) /\ Len(errors) = 2

\* The properties of a visited node that no present element of its schema
\* matches (none has the name, none is a property wildcard) and that are
\* neither linux,phandle nor a tolerated built-in
Undeclared(v) ==
    {p \in Range(PropNames(fdt, v.node)) :
        /\ \A e \in Present(v.schema, v.node) :
              heap[e].name # p /\ ~IsPropAny(heap[e])
        /\ p # "linux,phandle"
        /\ ~is_builtin_property(fdt, v.node, p)}

\* The names of the property elements present for a visited node, in
\* schema order
ValidList(v) ==
    NamesOf(heap, SelectSeq(heap[v.schema].elements,
                            LAMBDA e : IsPropDesc(heap[e])
                                       /\ e \in Present(v.schema, v.node)))

OneUnexpectedProperty(v, p) ==
    /\ Cardinality(Findings(v.node, "Unexpected property", p)) = 1
    /\ \A i \in Findings(v.node, "Unexpected property", p) :
          errors[i].list = ValidList(v)

\* C4 as stated: every such property gets exactly one "Unexpected property"
\* finding with the valid list.
C4_Original ==
    pc = "done" =>
        \A v \in Visited : \A p \in Undeclared(v) : OneUnexpectedProperty(v, p)

\* C4, amended: every such property that is not called phandle gets exactly
\* one "Unexpected property" finding at the node's path, whose valid list is
\* the names of the property elements present for the node in schema order.
C4_UnexpectedProperty ==
    pc = "done" =>
        \A v \in Visited : \A p \in Undeclared(v) \ {"phandle"} :
            OneUnexpectedProperty(v, p)

C4_Witness ==
    /\ Returned
    /\ \E v \in Visited :
          /\ "extra-prop" \in Undeclared(v)
          /\ ValidList(v) = <<>>
          /\ Findings(v.node, "Unexpected property", "extra-prop") # {}

\* The image nodes visited with the image schema of get_schema
ImageVisits == {v \in Visited : heap[v.schema].cls = "NodeImage"}

DataForm == {"data", "data-offset", "data-size"}

\* The elements of the two data forms that are present for a visited image
\* node: the ones the property loop and the required-property check see
RequiredForm(v) ==
    {heap[e].name : e \in {x \in Present(v.schema, v.node) :
                              heap[x].name \in DataForm /\ IsPropDesc(heap[x])}}

HasOnly(v, form) == Range(PropNames(fdt, v.node)) \cap DataForm = form

NoFinding(v, kind, names) == \A p \in names : Findings(v.node, kind, p) = {}

\* The skeleton of a variant with data, and with data-offset and data-size
\* in its place
Swapped(a, b) ==
    \E u \in BOOLEAN : {a, b} = {Edit("none", u), Edit("offset-size", u)}

RequiredFindings(errs) ==
    {errs[i] : i \in {j \in 1..Len(errs) : errs[j].kind = "Required property missing"}}

\* C5: an image node with data alone gets no "Required property missing"
\* finding for data-offset or data-size, one with data-offset and data-size
\* alone gets none for data; the elements present for the one form are the
\* complement of those present for the other, the form that is there gets
\* no "Unexpected property" finding, and a document run after its swapped
\* form gets the same required-property findings.
C5_DataForms ==
    /\ (pc = "done" /\ first.outcome = "done" /\ Swapped(first.fdt, fdt)) =>
          RequiredFindings(errors) = RequiredFindings(first.errors)
    /\ \A v \in ImageVisits :
        /\ HasOnly(v, {"data"}) =>
              /\ RequiredForm(v) = {"data"}
              /\ pc = "done" =>
                    /\ NoFinding(v, "Required property missing", DataForm)
                    /\ NoFinding(v, "Unexpected property", {"data"})
        /\ HasOnly(v, {"data-offset", "data-size"}) =>
              /\ RequiredForm(v) = DataForm \ {"data"}
              /\ pc = "done" =>
                    /\ NoFinding(v, "Required property missing", DataForm)
                    /\ NoFinding(v, "Unexpected property", DataForm \ {"data"})

C5_Witness ==
    /\ Returned
    /\ runs = 2
    /\ first.outcome = "done"
    /\ first.fdt = Edit("none", args_upl)
    /\ fdt = Edit("offset-size", args_upl)
    /\ \E v \in ImageVisits : HasOnly(v, {"data-offset", "data-size"})

\* C7: the list a start call ends with holds the findings of that run and
\* no other, and a call on the tree the engine's first call was made on,
\* when the engine was new, ends as that call did, with the same list.
C7_RunsIndependent ==
    /\ errors = logged
    /\ (runs >= 2 /\ pc \in {"done", "raised", "crashed"} /\ fdt = first.fdt) =>
          pc = first.outcome /\ errors = first.errors

C7_Witness ==
    /\ runs = 2
    /\ pc = "done"
    /\ fdt = first.fdt
    /\ errors = first.errors
    /\ Len(errors) = 2

\* C8: with raise_on_error the first fail ends the run, which returns no
\* list, nothing is validated after it and the error list never holds
\* more than one finding; without it no run is aborted: every run
\* completes and returns its list.
C8_RaiseOnError ==
    /\ raise_on_error =>
          /\ Len(errors) <= 1
          /\ Len(errors) = 1 => pc = "raised" /\ stack = <<>>
    /\ ~raise_on_error => pc \notin {"raised", "crashed"}

\* C10: the skeleton document of a variant, run against the schema of that
\* variant, is never aborted and its error list stays empty.
C10_SkeletonValid ==
    (pc \in {"run", "done", "raised", "crashed"} /\ fdt = Header(args_upl)) =>
        errors = <<>> /\ pc \in {"run", "done"}

C10_Witness == pc = "done" /\ fdt = Header(args_upl) /\ errors = <<>> /\ ~args_upl

\* The segments of a target's path: '/' splits into two empty segments,
\* '/a/b' into an empty one and the names
TargetSegs(path) == IF path = <<>> THEN <<"", "">> ELSE <<"">> \o path

\* C6: check_phandle_target is true exactly when template and target path
\* have the same number of segments and every template segment other than
\* ANY equals the target's segment at its place; /a/ANY/b accepts /a/x/b
\* and rejects /a/x/y and /a/b.
C6_PhandleTarget ==
    ph.state = "returned" =>
        /\ ph.valid <=>
              /\ Len(ph.segs) = Len(TargetSegs(ph.path))
              /\ \A i \in 1..Len(ph.segs) :
                    ph.segs[i] # "ANY" => ph.segs[i] = TargetSegs(ph.path)[i]
        /\ ph.segs = <<"", "a", "ANY", "b">> =>
              /\ ph.path = <<"a", "x", "b">> => ph.valid
              /\ ph.path \in {<<"a", "x", "y">>, <<"a", "b">>} => ~ph.valid

C6_Witness ==
    /\ ph.state = "returned"
    /\ ph.segs = <<"", "a", "ANY", "b">>
    /\ ph.path = <<"a", "x", "b">>
    /\ ph.valid

\* The place of a node among the nodes of the document
NodeIndex(path) == CHOOSE i \in 1..Len(fdt) : fdt[i].path = path

\* p is reached before q by a traversal that takes a node before its
\* subnodes and the subnodes in the order of the document
PreBefore(p, q) ==
    /\ p # q
    /\ \/ IsPrefix(p, q)
       \/ \E k \in 1..Len(p) :
             /\ k <= Len(q)
             /\ SubSeq(p, 1, k - 1) = SubSeq(q, 1, k - 1)
             /\ p[k] # q[k]
             /\ NodeIndex(SubSeq(p, 1, k)) < NodeIndex(SubSeq(q, 1, k))

\* The node at whose turn a finding is made: an "Unexpected subnode" finding
\* is located at the parent and made when the subnode is reached
FindingNode(f) ==
    IF f.kind = "Unexpected subnode" THEN f.loc \o <<f.name>> ELSE f.loc

\* The part of a node's turn a finding is made in
FindingPhase(f) ==
    CASE f.kind \in {"Unexpected subnode", "Node name does not match pattern"} -> 0
      [] f.kind \in {"must be a u32", "Unexpected property",
                     "phandle target not valid for this node"} -> 1
      [] f.kind = "Required property missing" -> 2
      [] f.kind = "Missing subnode" -> 3

PropIndex(f) ==
    LET names == PropNames(fdt, f.loc)
    IN  CHOOSE i \in 1..Len(names) : names[i] = f.name

InOrder(a, b) ==
    \/ PreBefore(FindingNode(a), FindingNode(b))
    \/ /\ FindingNode(a) = FindingNode(b)
       /\ \/ FindingPhase(a) < FindingPhase(b)
          \/ /\ FindingPhase(a) = FindingPhase(b)
             /\ FindingPhase(a) = 1 => PropIndex(a) < PropIndex(b)

DepthFirst == \A i, j \in 1..Len(errors) : i < j => InOrder(errors[i], errors[j])

PhandleNodes == {v \in Visited : "phandle" \in Range(PropNames(fdt, v.node))}

HasTarget(v) ==
    \E e \in Present(v.schema, v.node) : heap[e].cls = "PropPhandleTarget"

HasAny(v) == \E e \in Present(v.schema, v.node) : IsPropAny(heap[e])

\* The findings at a visited node that name phandle
PhandleFindings(v) ==
    {i \in 1..Len(errors) : errors[i].loc = v.node /\ errors[i].name = "phandle"}

NotValidHere(v) ==
    /\ Cardinality(Findings(v.node, "phandle target not valid for this node",
                            "phandle")) = 1
    /\ Findings(v.node, "Unexpected property", "phandle") = {}

DriverEnded == drv.status \notin {"none", "running"}

\* C13: run_fit_validate comes to an end with a status after start was
\* called on every file; the lists it has shown are those of the files that
\* have findings, and the status is 1 when some file has a finding and 0
\* when none has.
C13_DriverReportsAll ==
    DriverEnded =>
        /\ drv.status \in {"0", "1"}
        /\ Len(drv.results) = Len(drv.files)
        /\ drv.shown = SelectSeq([i \in 1..Len(drv.results) |->
                                    [file |-> i, errors |-> drv.results[i]]],
                                 LAMBDA x : x.errors # <<>>)
        /\ drv.status = "1" <=> \E i \in 1..Len(drv.results) : drv.results[i] # <<>>

\* The properties of a visited node that no present element of its schema
\* matches: none has the name and none is a property wildcard
Unmatched(v) ==
    {p \in Range(PropNames(fdt, v.node)) :
        \A e \in Present(v.schema, v.node) : heap[e].name # p /\ ~IsPropAny(heap[e])}

\* The findings the property loop made for property p of a visited node
PropFindings(v, p) ==
    {i \in 1..Len(errors) :
        /\ errors[i].loc = v.node
        /\ errors[i].name = p
        /\ errors[i].kind \in {"Unexpected property", "must be a u32",
                               "phandle target not valid for this node"}}

Tolerated(v, p) ==
    \/ p = "linux,phandle"
    \/ p = "reg" /\ HasAt(NodeName(v.node))
    \/ /\ p \in {"#address-cells", "#size-cells"}
       /\ \E i \in 1..Len(fdt) :
             /\ fdt[i].path # <<>>
             /\ Front(fdt[i].path) = v.node
             /\ HasAt(Last(fdt[i].path))

\* C14: a property of a visited node that no present schema element matches
\* gets no finding exactly when it is linux,phandle, or reg on a node whose
\* name holds '@', or #address-cells or #size-cells on a node with a subnode
\* whose name holds '@'; and no element is ever looked up for linux,phandle.
C14_ToleratedProperties ==
    /\ \A i \in 1..Len(calls) :
          calls[i].expected = "PropDesc" => calls[i].name # "linux,phandle"
    /\ pc = "done" =>
          \A v \in Visited : \A p \in Unmatched(v) :
              PropFindings(v, p) = {} <=> Tolerated(v, p)

C14_Witness ==
    /\ Returned
    /\ \E v, w \in Visited :
          /\ "reg" \in Unmatched(v) /\ Tolerated(v, "reg")
          /\ "#size-cells" \in Unmatched(w) /\ Tolerated(w, "#size-cells")
          /\ PropFindings(v, "reg") = {}

\* The #address-cells property of the root, which the schema of get_schema
\* holds an AddressCells element for
RootCells ==
    SelectSeq(NodeAt(fdt, <<>>).props, LAMBDA q : q.name = "#address-cells")

CellsFindings ==
    {i \in 1..Len(errors) : errors[i].loc = <<>> /\ errors[i].name = "#address-cells"}

\* C15: a run over a document whose root #address-cells is an integer 1 or
\* 2 makes no finding for it; for any other value the run makes a finding
\* for it through fail and does not end with another exception, so that
\* without raise_on_error the value 3 is a finding of the returned list.
C15_AddressCellsFinding ==
    (pc \in {"done", "raised", "crashed"} /\ RootCells # <<>>) =>
        IF RootCells[1].type = "INT" /\ RootCells[1].value \in {1, 2}
        THEN CellsFindings = {}
        ELSE /\ pc # "crashed"
             /\ CellsFindings # {}
             /\ ~raise_on_error => pc = "done"

\* The node a conditional_props key of the element under test points at:
\* the node itself, or one node up per leading '../'
TargetNode(rel) == SubSeq(ep.parent_node, 1, Len(ep.parent_node) - (Len(rel) - 1))

\* The schema element that key points at: the element's parent, or one
\* parent up per leading '../'
RECURSIVE Up(_, _)
Up(e, n) == IF n = 0 THEN e ELSE Up(heap[e].parent, n - 1)

TargetSchema(rel) == Up(heap[ep.element].parent, Len(rel) - 1)

\* The stripped name is among the target node's property and subnode names
NameThere(rel) ==
    \E i \in 1..Len(fdt) :
        \/ /\ fdt[i].path = TargetNode(rel)
           /\ \E k \in 1..Len(fdt[i].props) : fdt[i].props[k].name = Last(rel)
        \/ fdt[i].path = TargetNode(rel) \o <<Last(rel)>>

\* The stripped name is the name of an element of the target schema element
Declared(rel) ==
    \E e \in Range(heap[TargetSchema(rel)].elements) : heap[e].name = Last(rel)

CondOf == heap[ep.element].conditional_props

\* C16 as stated: element_present returns true exactly when every entry's
\* expected value equals the presence of its name at the target node.
C16_Original ==
    ep.state = "returned" =>
        (ep.result <=> \A i \in 1..Len(CondOf) :
                          CondOf[i].value = NameThere(CondOf[i].rel))

\* C16, amended: element_present returns true exactly when every entry whose
\* stripped name is the name of an element of the target schema element has
\* an expected value equal to the presence of that name among the target
\* node's properties and subnodes; the other entries are not looked at, and
\* an element with no conditional_props is present.
C16_ElementPresent ==
    ep.state = "returned" =>
        /\ ep.result <=> \A i \in 1..Len(CondOf) :
                            Declared(CondOf[i].rel) =>
                                CondOf[i].value = NameThere(CondOf[i].rel)
        /\ CondOf = <<>> => ep.result

C16_Witness ==
    /\ ep.state = "returned"
    /\ ~ep.result
    /\ Len(CondOf) = 2
    /\ Len(CondOf[1].rel) = 2
    /\ Declared(CondOf[2].rel) /\ CondOf[2].value # NameThere(CondOf[2].rel)

\* The names of the subnodes a node has in the document, in its order
ChildNames(node) ==
    LET kids == SelectSeq(fdt, LAMBDA n : Len(n.path) = Len(node) + 1
                                          /\ IsPrefix(node, n.path))
    IN  [i \in 1..Len(kids) |-> Last(kids[i].path)]

\* C17: for every visited node and every required node element of its
\* schema that is present for it, the returned list holds exactly one
\* "Missing subnode" finding at the node's path when the node has no subnode
\* of that name, ending with the names of the subnodes the node has (no list
\* when it has none), and no such finding when it has one.
C17_MissingSubnode ==
    pc = "done" =>
        \A v \in Visited : \A e \in Present(v.schema, v.node) :
            (IsNodeDesc(heap[e]) /\ heap[e].required) =>
                LET found == Findings(v.node, "Missing subnode", heap[e].name)
                IN  IF heap[e].name \in Range(ChildNames(v.node))
                    THEN found = {}
                    ELSE /\ Cardinality(found) = 1
                         /\ \A i \in found : errors[i].list = ChildNames(v.node)

C17_Witness ==
    /\ Returned
    /\ fdt = Edit("no-images", args_upl)
    /\ \E i \in Findings(<<>>, "Missing subnode", "images") :
          errors[i].list = <<"configurations">>

\* The node wildcards present for the subnodes of a visited node
Wildcards(v) == {e \in Present(v.schema, v.node) : IsNodeAny(heap[e])}

\* The subnodes of visited nodes that only a node wildcard matches, and
\* whose name its name_pattern does not match; with the wildcard
Mismatched ==
    {x \in [node : {fdt[i].path : i \in 1..Len(fdt)}, schema : 1..Len(heap)] :
        /\ x.node # <<>>
        /\ \E v \in Visited :
              /\ v.node = Front(x.node)
              /\ x.schema \in Wildcards(v)
              /\ \A e \in Present(v.schema, v.node) :
                    /\ heap[e].name # Last(x.node)
                    /\ IsNodeAny(heap[e]) => e = x.schema
        /\ heap[x.schema].name_pattern # ""
        /\ ~ReMatch(heap[x.schema].name_pattern, Last(x.node))}

\* A node was reached by the traversal: it was validated, or reported as
\* an unexpected subnode of its parent
Reached(n) ==
    \/ \E v \in validated : v.node = n
    \/ Findings(Front(n), "Unexpected subnode", Last(n)) # {}

\* C18: a subnode whose name the name_pattern of its parent's node wildcard
\* does not match is resolved to the wildcard all the same: the returned
\* list holds one "Node name does not match pattern" finding at its path and
\* no "Unexpected subnode" finding for it, it is validated against the
\* wildcard, and its subnodes are reached.
C18_PatternMismatchKept ==
    pc = "done" =>
        \A x \in Mismatched :
            /\ Cardinality(Findings(x.node, "Node name does not match pattern",
                                    Last(x.node))) = 1
            /\ Findings(Front(x.node), "Unexpected subnode", Last(x.node)) = {}
            /\ x \in validated
            /\ \A i \in 1..Len(fdt) :
                  (fdt[i].path # <<>> /\ Front(fdt[i].path) = x.node)
                      => Reached(fdt[i].path)

C18_Witness ==
    /\ Returned
    /\ args_upl
    /\ fdt = Edit("kernel-hash", TRUE)
    /\ \E x \in Mismatched :
          /\ x.node = <<"images", "kernel-1">>
          /\ x \in validated
          /\ Reached(x.node \o <<"hash-1">>)

\* C19: _validate_schema is only ever called with a node element as schema,
\* and a subnode of the root named like a property element of the root's
\* schema is reported as an unexpected subnode and skipped, the run going
\* on to its end.
C19_SchemaIsNode ==
    /\ \A v \in validated : IsNodeDesc(heap[v.schema])
    /\ (pc \in {"done", "crashed"} /\ ~raise_on_error
          /\ \E i \in 1..Len(fdt) : fdt[i].path = <<"description">>) =>
          /\ pc = "done"
          /\ Cardinality(Findings(<<>>, "Unexpected subnode", "description")) = 1
          /\ <<"description">> \in skipped

====
